---- MODULE Spec2Model ----
(***************************************************************************)
(* Model of the VibeCheck backend (backend/services, backend/routers):     *)
(* QlooService (static mood tables, cross-domain rules), PlacesServices    *)
(* (keyword fan-out, dedup, enrichment, fallback, emotion synthesis) and   *)
(* the get_recommendations handler.                                        *)
(*                                                                         *)
(* Python strings that the code inspects character by character (lower(), *)
(* substring "in", title()) are sequences of one-character strings.        *)
(* Strings that are only compared for equality or used as dictionary keys  *)
(* are TLA+ strings.                                                       *)
(***************************************************************************)
EXTENDS Integers, Sequences, FiniteSets, TLC

(***************************************************************************)
(* Python str helpers                                                      *)
(***************************************************************************)
UpperCase == <<"A","B","C","D","E","F","G","H","I","J","K","L","M",
               "N","O","P","Q","R","S","T","U","V","W","X","Y","Z">>

LowerCase == <<"a","b","c","d","e","f","g","h","i","j","k","l","m",
               "n","o","p","q","r","s","t","u","v","w","x","y","z">>

IsUpper(c) == \E i \in 1..26 : UpperCase[i] = c

IsLower(c) == \E i \in 1..26 : LowerCase[i] = c

LowerChar(c) == IF IsUpper(c) THEN LowerCase[CHOOSE i \in 1..26 : UpperCase[i] = c] ELSE c

UpperChar(c) == IF IsLower(c) THEN UpperCase[CHOOSE i \in 1..26 : LowerCase[i] = c] ELSE c

\* str.lower()
Lower(s) == [i \in 1..Len(s) |-> LowerChar(s[i])]

\* str.replace("_", " ")
ReplaceUnderscore(s) == [i \in 1..Len(s) |-> IF s[i] = "_" THEN " " ELSE s[i]]

\* str.title(): a letter that follows a non-letter is upper-cased, every
\* other letter is lower-cased.
Title(s) ==
    [i \in 1..Len(s) |->
        IF i = 1 \/ ~(IsUpper(s[i-1]) \/ IsLower(s[i-1]))
        THEN UpperChar(s[i])
        ELSE LowerChar(s[i])]

\* Python's  sub in s  on strings: substring containment.
Contains(sub, s) ==
    \E i \in 0..(Len(s) - Len(sub)) : SubSeq(s, i + 1, i + Len(sub)) = sub

\* Python's  x in list
InList(x, list) == \E i \in 1..Len(list) : list[i] = x

Min(a, b) == IF a <= b THEN a ELSE b

(***************************************************************************)
(* models/moods.py: MoodType                                               *)
(***************************************************************************)
MoodType ==
    { "anxious", "lonely", "celebratory", "nostalgic", "stressed",
      "contemplative", "energetic", "melancholic", "satisfaction",
      "disappointment", "lethargy", "relaxed", "romantic", "inspired",
      "curious", "awkward", "surprised", "grateful", "adventurous", "bored",
      "overwhelmed", "comforted", "exhilarated", "disgusted" }

(***************************************************************************)
(* services/qloo_services.py: static tables                                *)
(***************************************************************************)
mood_mappings ==
    [ anxious |->
        [ search_keywords |-> <<"quiet cafe", "tea house", "comfort food", "soup kitchen", "meditation space">>,
          ambiance |-> <<"soft_lighting", "minimal_crowds", "gentle_music", "calming_colors">>,
          music_genres |-> <<"ambient", "classical", "lo-fi", "nature_sounds">>,
          activities |-> <<"reading", "journaling", "gentle_walks", "breathing_exercises">> ],
      lonely |->
        [ search_keywords |-> <<"communal dining", "coffee shop", "neighborhood bar", "community center">>,
          ambiance |-> <<"warm_lighting", "friendly_staff", "community_feel", "welcoming_atmosphere">>,
          music_genres |-> <<"indie_folk", "acoustic", "singer_songwriter", "warm_vocals">>,
          activities |-> <<"book_clubs", "community_events", "group_classes", "volunteering">> ],
      celebratory |->
        [ search_keywords |-> <<"rooftop bar", "fine dining", "champagne bar", "festive restaurant">>,
          ambiance |-> <<"upscale", "energetic", "special_occasion", "elegant">>,
          music_genres |-> <<"upbeat_pop", "celebration_classics", "dance", "live_music">>,
          activities |-> <<"dancing", "live_shows", "special_events", "photo_opportunities">> ],
      nostalgic |->
        [ search_keywords |-> <<"classic diner", "vintage bar", "traditional cuisine", "family_restaurant">>,
          ambiance |-> <<"retro_decor", "familiar_comfort", "timeless_atmosphere", "memory_inducing">>,
          music_genres |-> <<"classic_rock", "oldies", "vintage_jazz", "folk_classics">>,
          activities |-> <<"reminiscing", "photo_viewing", "storytelling", "memory_sharing">> ],
      stressed |->
        [ search_keywords |-> <<"zen cafe", "quiet restaurant", "nature_view_dining", "minimal_space">>,
          ambiance |-> <<"peaceful", "uncluttered", "natural_elements", "stress_relieving">>,
          music_genres |-> <<"meditation_music", "spa_sounds", "instrumental", "soft_jazz">>,
          activities |-> <<"meditation", "yoga", "nature_walks", "stress_relief">> ],
      contemplative |->
        [ search_keywords |-> <<"library cafe", "art gallery restaurant", "philosophy_cafe", "scenic_dining">>,
          ambiance |-> <<"thought_provoking", "intellectually_stimulating", "quiet_corners", "inspiring_views">>,
          music_genres |-> <<"classical", "experimental", "thoughtful_lyrics", "ambient_classical">>,
          activities |-> <<"reading", "writing", "art_appreciation", "deep_conversations">> ],
      energetic |->
        [ search_keywords |-> <<"bustling_market", "sports_bar", "active_dining", "food_hall">>,
          ambiance |-> <<"high_energy", "dynamic", "social_buzz", "vibrant_atmosphere">>,
          music_genres |-> <<"electronic", "rock", "pop", "high_tempo">>,
          activities |-> <<"sports", "dancing", "active_games", "social_events">> ],
      melancholic |->
        [ search_keywords |-> <<"dimly_lit_bar", "intimate_restaurant", "quiet_corner_cafe", "contemplative_space">>,
          ambiance |-> <<"moody_lighting", "introspective", "emotional_resonance", "cathartic">>,
          music_genres |-> <<"melancholic_indie", "blues", "sad_songs", "emotional_ballads">>,
          activities |-> <<"journaling", "artistic_expression", "quiet_reflection", "emotional_processing">> ] ]

\* dict.get(mood, default) falling back to another entry.
MappingKeyWrongDefault(mood) ==
    IF mood \in DOMAIN mood_mappings THEN mood ELSE "anxious"

\* mood_mappings.get(mood, mood_mappings['contemplative']): the key whose
\* entry is served.
MappingKey(mood) ==
    IF mood \in DOMAIN mood_mappings THEN mood ELSE "contemplative"

\* mood_mappings.get(mood, {}): a missing mood served by empty lists.
MockMoodCorrelationsEmptyDefault(mood) ==
    IF mood \in DOMAIN mood_mappings
    THEN mood_mappings[mood]
    ELSE [ search_keywords |-> <<>>, ambiance |-> <<>>,
           music_genres |-> <<>>, activities |-> <<>> ]

\* _get_mock_mood_correlations
MockMoodCorrelations(mood) == mood_mappings[MappingKey(mood)]

\* get_mood_correlations: every branch (no key, key, except) returns the
\* mock table's answer.
get_mood_correlations(api_key, mood) ==
    IF ~api_key THEN MockMoodCorrelations(mood) ELSE MockMoodCorrelations(mood)

(***************************************************************************)
(* The characters of the strings the code inspects.                        *)
(***************************************************************************)
Chars ==
    [ cafe |-> <<"c","a","f","e">>,
      bar |-> <<"b","a","r">>,
      restaurant |-> <<"r","e","s","t","a","u","r","a","n","t">>,
      bakery |-> <<"b","a","k","e","r","y">>,
      meal_takeaway |-> <<"m","e","a","l","_","t","a","k","e","a","w","a","y">>,
      food |-> <<"f","o","o","d">>,
      night_club |-> <<"n","i","g","h","t","_","c","l","u","b">>,
      lodging |-> <<"l","o","d","g","i","n","g">>,
      park |-> <<"p","a","r","k">>,
      shopping_mall |-> <<"s","h","o","p","p","i","n","g","_","m","a","l","l">>,
      point_of_interest |-> <<"p","o","i","n","t","_","o","f","_","i","n","t","e","r","e","s","t">> ]

\* Display strings: the values of type_mapping (places_services.py) and
\* place types a caller of get_music_for_place may send.
Text ==
    [ Cafe |-> <<"C","a","f","e">>,
      Bar |-> <<"B","a","r">>,
      Restaurant |-> <<"R","e","s","t","a","u","r","a","n","t">>,
      Bakery |-> <<"B","a","k","e","r","y">>,
      Takeaway |-> <<"T","a","k","e","a","w","a","y">>,
      FoodPlace |-> <<"F","o","o","d"," ","P","l","a","c","e">>,
      NightClub |-> <<"N","i","g","h","t"," ","C","l","u","b">>,
      Hotel |-> <<"H","o","t","e","l">>,
      Place |-> <<"P","l","a","c","e">>,
      CozyCafeAndBar |-> <<"c","o","z","y"," ","c","a","f","e"," ","a","n","d"," ","b","a","r">>,
      BarAndRestaurant |-> <<"B","a","r"," ","a","n","d"," ","R","e","s","t","a","u","r","a","n","t">>,
      CafeRestaurant |-> <<"C","A","F","E"," ","R","e","s","t","a","u","r","a","n","t">>,
      WineBarCafe |-> <<"W","i","n","e"," ","B","a","r"," ","C","a","f","e">>,
      Empty |-> <<>> ]

(***************************************************************************)
(* services/qloo_services.py: music, activities, taste profile             *)
(***************************************************************************)
\* music_by_mood, by title
music_by_mood ==
    [ anxious |-> <<"Weightless", "River", "Mad World">>,
      lonely |-> <<"The Night We Met", "Skinny Love", "Black">>,
      celebratory |-> <<"Good as Hell", "Uptown Funk", "Can't Stop the Feeling">>,
      contemplative |-> <<"The Scientist", "Holocene", "Breathe Me">> ]

\* _get_mock_music_recommendations
MockMusicRecommendations(mood) ==
    IF mood \in DOMAIN music_by_mood THEN music_by_mood[mood] ELSE music_by_mood["contemplative"]

\* activities_by_mood, by name
activities_by_mood ==
    [ anxious |-> <<"Meditation Session", "Gentle Yoga", "Nature Walk">>,
      lonely |-> <<"Community Art Class", "Book Club Meeting", "Volunteer at Local Shelter">>,
      celebratory |-> <<"Dancing Class", "Karaoke Night", "Rooftop Party">>,
      contemplative |-> <<"Museum Visit", "Creative Writing Workshop", "Philosophy Discussion Group">> ]

\* _get_mock_activity_recommendations
MockActivityRecommendations(mood) ==
    IF mood \in DOMAIN activities_by_mood
    THEN activities_by_mood[mood]
    ELSE activities_by_mood["contemplative"]

\* _get_mock_taste_profile: the same literal whatever the user preferences
MockTasteProfile ==
    [ taste_clusters |-> <<"indie_contemplative", "comfort_seeking", "urban_explorer", "cultural_curious">>,
      food_preferences |-> <<"artisanal_coffee", "ethnic_fusion", "comfort_food", "local_specialties">>,
      music_preferences |-> <<"indie_folk", "ambient_electronic", "jazz_fusion", "world_music">>,
      activity_preferences |-> <<"cultural_exploration", "quiet_socializing", "creative_pursuits", "mindful_experiences">>,
      ambiance_preferences |-> <<"intimate_lighting", "natural_textures", "curated_music", "thoughtful_design">>,
      cultural_interests |-> <<"independent_art", "local_history", "sustainable_living", "authentic_experiences">>,
      personality_traits |-> <<"introspective", "curious", "aesthetically_aware", "community_minded">> ]

\* get_taste_profile: both branches return the mock profile; the
\* user_preferences argument is not read.
get_taste_profile(api_key, user_preferences) ==
    IF ~api_key THEN MockTasteProfile ELSE MockTasteProfile

(***************************************************************************)
(* services/qloo_services.py: cross-domain rules                           *)
(***************************************************************************)
\* The curated rows, by title / name.
CafeMusic == <<"Cafe Playlist", "Acoustic Sessions">>

BarMusic == <<"Late Night Jazz", "Cocktail Hour">>

RestaurantActivities == <<"After Dinner Walk", "Dessert & Coffee">>

\* The music branch with the two tests in the other order.
CrossDomainMusicBarFirst(place_type) ==
    IF Contains(Chars["bar"], place_type) THEN <<BarMusic>>
    ELSE IF Contains(Chars["cafe"], place_type) THEN <<CafeMusic>>
    ELSE <<>>

\* if "cafe" in place_type: ... elif "bar" in place_type: ...
\* The value is <<row>> when recommendations["music"] is set, <<>> when not.
CrossDomainMusic(place_type) ==
    IF Contains(Chars["cafe"], place_type) THEN <<CafeMusic>>
    ELSE IF Contains(Chars["bar"], place_type) THEN <<BarMusic>>
    ELSE <<>>

\* if "restaurant" in place_type: ...
CrossDomainActivities(place_type) ==
    IF Contains(Chars["restaurant"], place_type) THEN <<RestaurantActivities>> ELSE <<>>

\* _get_mock_cross_domain_recommendations: the recommendations dict, a
\* function whose domain is the set of keys that were assigned.
\* raw_type is primary_item.get("type", "").
MockCrossDomainRecommendations(raw_type, target_domains) ==
    LET place_type == Lower(raw_type)
        music == IF InList("music", target_domains) THEN CrossDomainMusic(place_type) ELSE <<>>
        acts == IF InList("activities", target_domains)
                THEN CrossDomainActivities(place_type) ELSE <<>>
        keys == { d \in {"music", "activities"} :
                    \/ d = "music" /\ music # <<>>
                    \/ d = "activities" /\ acts # <<>> }
    IN [ d \in keys |-> IF d = "music" THEN music[1] ELSE acts[1] ]

(***************************************************************************)
(* services/places_services.py: the aggregator's pure steps                *)
(***************************************************************************)
\* Place ids the search collaborator may return: 1..MaxId.
MaxId == 5

\* Longest result list one keyword search returns in the model.
MaxResults == 2

\* Nested search_places activations the interpreter allows before it
\* raises RecursionError (sys.getrecursionlimit(), scaled down).
MaxDepth == 2

\* A search result without the "place_id" key.
NoPlaceId == 0

\* A search result whose "place_id" is present and empty.
EmptyPlaceId == -1

\* search_keywords[:3]
KeywordLimit == 3

\* list(unique_places.values())[:6]
ResultLimit == 6

\* enhanced_places[:4]
ReturnLimit == 4

\* result.get("rating", 4.0), in tenths
DefaultRating == 40

\* list[:n]
Take(list, n) == SubSeq(list, 1, Min(n, Len(list)))

\* A raw search result as keyword pass kwi returned it at position pos.
\* kwi and pos stand for the fields that differ between two results with
\* the same place_id.
Candidate(id, kwi, pos) == [ place_id |-> id, kw |-> kwi, pos |-> pos ]

\* One answer with more places than the aggregator keeps.
LongAnswer == [ i \in 1..(ResultLimit + 1) |-> i ]

\* What one nearby search may answer with status 200: the empty list, a
\* run of consecutive place ids, a long run, or a list holding a result
\* with no id or an empty one.
SearchAnswers ==
    {<<>>}
    \cup { [ i \in 1..n |-> s + i - 1 ] : s \in 1..MaxId, n \in 1..Min(MaxResults, MaxId) }
    \cup { LongAnswer }
    \cup { <<1, NoPlaceId>>, <<2, EmptyPlaceId>> }

\* The loop of lines 52-54 with the membership test dropped: a later
\* duplicate overwrites the stored place.
RECURSIVE UniquePlacesLastWins(_, _)
UniquePlacesLastWins(all_places, unique_places) ==
    IF all_places = <<>> THEN unique_places
    ELSE LET place == Head(all_places)
             seen == { j \in 1..Len(unique_places) :
                         unique_places[j].place_id = place.place_id }
         IN IF seen # {}
            THEN UniquePlacesLastWins(Tail(all_places),
                     [ j \in 1..Len(unique_places) |->
                         IF j \in seen THEN place ELSE unique_places[j] ])
            ELSE UniquePlacesLastWins(Tail(all_places), Append(unique_places, place))

\* for place in all_places: if place["place_id"] not in unique_places: ...
\* unique_places is the dict in insertion order.
RECURSIVE UniquePlaces(_, _)
UniquePlaces(all_places, unique_places) ==
    IF all_places = <<>> THEN unique_places
    ELSE LET place == Head(all_places)
         IN IF \E j \in 1..Len(unique_places) :
                   unique_places[j].place_id = place.place_id
            THEN UniquePlaces(Tail(all_places), unique_places)
            ELSE UniquePlaces(Tail(all_places), Append(unique_places, place))

\* Lines 51-54 with "if ... not in unique_places" dropped.
DeduplicateLastWins(all_places) == UniquePlacesLastWins(all_places, <<>>)

\* unique_places = {} and the loop of lines 52-54
Deduplicate(all_places) == UniquePlaces(all_places, <<>>)

\* place["place_id"] raises KeyError for a result without the key.
DedupRaises(all_places) ==
    \E i \in 1..Len(all_places) : all_places[i].place_id = NoPlaceId

\* type_mapping
type_mapping ==
    [ restaurant |-> Text.Restaurant, cafe |-> Text.Cafe, bar |-> Text.Bar,
      bakery |-> Text.Bakery, meal_takeaway |-> Text.Takeaway, food |-> Text.FoodPlace,
      night_club |-> Text.NightClub, lodging |-> Text.Hotel ]

\* _get_place_type
RECURSIVE FirstMapped(_)
FirstMapped(types) ==
    IF types = <<>> THEN <<>>
    ELSE IF Head(types) \in DOMAIN type_mapping THEN <<type_mapping[Head(types)]>>
    ELSE FirstMapped(Tail(types))

get_place_type(types) ==
    IF FirstMapped(types) # <<>> THEN FirstMapped(types)[1]
    ELSE IF types # <<>> THEN Title(ReplaceUnderscore(Chars[types[1]]))
    ELSE Text.Place

\* The "result" object of the details response for a place id: the types
\* list and the rating (-1: the response carries no rating).
DetailsResult(place_id) ==
    CASE place_id % 4 = 1 -> [ types |-> <<"cafe", "food", "point_of_interest">>, rating |-> 45 ]
      [] place_id % 4 = 2 -> [ types |-> <<"bar", "night_club", "restaurant", "food">>, rating |-> 32 ]
      [] place_id % 4 = 3 -> [ types |-> <<"restaurant", "food">>, rating |-> -1 ]
      [] OTHER            -> [ types |-> <<"park", "point_of_interest">>, rating |-> 50 ]

\* The dict _enhance_place_details returns on status 200 (the fields that
\* are read later; active_users_nearby and thumbnail are random decoration).
EnhancedPlace(place_id) ==
    LET result == DetailsResult(place_id)
    IN [ id |-> place_id,
         type |-> get_place_type(result.types),
         rating |-> IF result.rating = -1 THEN DefaultRating ELSE result.rating,
         tags |-> Take(result.types, 3) ]

\* list(unique_places.values())  without the slice, as place ids
ResultsUnlimited(unique_places) ==
    [ i \in 1..Len(unique_places) |-> unique_places[i].place_id ]

\* list(unique_places.values())[:6], as place ids
Results(unique_places) ==
    [ i \in 1..Min(ResultLimit, Len(unique_places)) |-> unique_places[i].place_id ]

\* return enhanced_places  without the slice
ReturnedPlacesAll(enhanced_places) == enhanced_places

\* return enhanced_places[:4]
ReturnedPlaces(enhanced_places) == Take(enhanced_places, ReturnLimit)

\* The 404 test of get_recommendations left out.
NoMatchesNever(recommended_places) == FALSE

\* if not recommended_places
NoMatches(recommended_places) == recommended_places = <<>>

\* generate_place_description's except branch: the fixed fallback text
FallbackDescription ==
    "A quiet corner where the world slows down. Soft jazz mingles with coffee aroma, and the bartender remembers that some nights you just need soup and silence."

\* generate_place_description with an except branch that returns no text
PlaceDescriptionNoFallback(outcome) ==
    IF outcome = "raise" THEN "" ELSE "generated"

\* generate_place_description: the generator's text, or the fallback text
\* when the call (or response.text.strip()) raises inside the try.
generate_place_description(outcome) ==
    IF outcome = "raise" THEN FallbackDescription ELSE "generated"

\* place['emotional_description'] = description
WithDescription(place, description) ==
    [ f \in DOMAIN place \cup {"emotional_description"} |->
        IF f = "emotional_description" THEN description ELSE place[f] ]

(***************************************************************************)
(* services/places_services.py: emotion synthesis.  Intensities are        *)
(* fixed-point numbers, Scale units to 1.0; ratings are in tenths.         *)
(***************************************************************************)
Scale == 10000

\* Values random.uniform(0.1, 0.3) takes in the model: RandSteps equal
\* steps from 0.1 towards 0.3 (multiples of 0.001, so that every product
\* below is exact).
RandSteps == 2

UniformDraws == { 1000 + k * (((2000 \div RandSteps) \div 10) * 10) : k \in 0..RandSteps }

\* emotions of get_vibe_heatmap_data
HeatmapEmotions == <<"happy", "relaxed", "energetic", "nostalgic", "contemplative", "romantic">>

\* (rating / 5.0) * 0.7 + random.uniform(0.1, 0.3)
BaseIntensity(rating, draw) == rating * 140 + draw

\* x * (tenths / 10)
Times(x, tenths) == (x * tenths) \div 10

\* Lines 260-278 with every elif turned into an if: each rule whose
\* category is among the place types is applied, one after the other.
AdjustedCumulative(emotion, place_types, base_intensity) ==
    LET bar == IF InList("bar", place_types) \/ InList("night_club", place_types)
               THEN IF emotion \in {"energetic", "happy"} THEN Times(base_intensity, 13)
                    ELSE IF emotion \in {"contemplative", "relaxed"} THEN Times(base_intensity, 7)
                    ELSE base_intensity
               ELSE base_intensity
        cafe == IF InList("cafe", place_types)
                THEN IF emotion \in {"contemplative", "relaxed"} THEN Times(bar, 12)
                     ELSE IF emotion \in {"energetic"} THEN Times(bar, 8)
                     ELSE bar
                ELSE bar
        restaurant == IF InList("restaurant", place_types)
                      THEN IF emotion \in {"happy", "romantic"} THEN Times(cafe, 12)
                           ELSE cafe
                      ELSE cafe
    IN IF InList("park", place_types)
       THEN IF emotion \in {"relaxed", "contemplative"} THEN Times(restaurant, 13)
            ELSE restaurant
       ELSE restaurant

\* The if / elif chain of lines 260-278 for one emotion.
Adjusted(emotion, place_types, base_intensity) ==
    IF InList("bar", place_types) \/ InList("night_club", place_types)
    THEN IF emotion \in {"energetic", "happy"} THEN Times(base_intensity, 13)
         ELSE IF emotion \in {"contemplative", "relaxed"} THEN Times(base_intensity, 7)
         ELSE base_intensity
    ELSE IF InList("cafe", place_types)
    THEN IF emotion \in {"contemplative", "relaxed"} THEN Times(base_intensity, 12)
         ELSE IF emotion \in {"energetic"} THEN Times(base_intensity, 8)
         ELSE base_intensity
    ELSE IF InList("restaurant", place_types)
    THEN IF emotion \in {"happy", "romantic"} THEN Times(base_intensity, 12)
         ELSE base_intensity
    ELSE IF InList("park", place_types)
    THEN IF emotion \in {"relaxed", "contemplative"} THEN Times(base_intensity, 13)
         ELSE base_intensity
    ELSE base_intensity

\* emotion_data[emotion] = base_intensity  without the cap
Uncapped(base_intensity) == base_intensity

\* min(1.0, base_intensity)
Capped(base_intensity) == Min(Scale, base_intensity)

\* _generate_emotion_data: the dict in insertion order, as a sequence of
\* (emotion, value) items; draws[i] is the random term of the i-th emotion.
\* place is the raw search result: types, and rating (-1: no rating key).
generate_emotion_data(place, emotions, draws) ==
    LET rating == IF place.rating = -1 THEN DefaultRating ELSE place.rating
    IN [ i \in 1..Len(emotions) |->
           [ emotion |-> emotions[i],
             value |-> Capped(Adjusted(emotions[i], place.types,
                                       BaseIntensity(rating, draws[i]))) ] ]

\* A maximum search that keeps the later of two equal items.
DominantEmotionLast(emotion_data) ==
    LET best == CHOOSE i \in 1..Len(emotion_data) :
                    /\ \A j \in 1..Len(emotion_data) :
                          emotion_data[j].value <= emotion_data[i].value
                    /\ \A j \in (i + 1)..Len(emotion_data) :
                          emotion_data[j].value < emotion_data[i].value
    IN emotion_data[best].emotion

\* max(emotion_data.items(), key=lambda x: x[1])[0]: the first item, in
\* dict order, whose value is the greatest.
DominantEmotion(emotion_data) ==
    LET best == CHOOSE i \in 1..Len(emotion_data) :
                    /\ \A j \in 1..Len(emotion_data) :
                          emotion_data[j].value <= emotion_data[i].value
                    /\ \A j \in 1..(i - 1) :
                          emotion_data[j].value < emotion_data[i].value
    IN emotion_data[best].emotion

(***************************************************************************)
(* State                                                                   *)
(***************************************************************************)
VARIABLES
    qloo_api_key,        \* QLOO_API_KEY is set
    places_api_key,      \* GOOGLE_PLACES_API_KEY is set
    call,                \* SpecQloo: the last QlooService call and its result
    mood,                \* mood_input.primary_mood.value of the request
    pc,                  \* position of get_recommendations
    status,              \* HTTP status answered (0: none yet)
    mood_correlations,   \* local of get_recommendations
    recommended_places,  \* local of get_recommendations
    di,                  \* index of the description loop
    response,            \* the "recommendations" object of the 200 answer
    stack,               \* call sites of the suspended search_places activations
    frame,               \* locals of the running search_places activation
    heat,                \* the heatmap entry built last
    hm,                  \* SpecHeatmapApi: the GET /heatmap request
    ep,                  \* SpecApi: the last music / activities request
    calls                \* SpecCalls: calls made to the geocoder and the search

vars == <<qloo_api_key, places_api_key, call, mood, pc, status, mood_correlations,
          recommended_places, di, response, stack, frame, heat, hm, ep, calls>>

NoCall ==
    [ op |-> "none", prefs |-> <<>>, mood |-> "", item_type |-> <<>>, domains |-> <<>>,
      result |-> <<>> ]

NoResponse == [ music |-> <<>>, activities |-> <<>>, cross_domain |-> <<>>, mood_insights |-> "" ]

NoHeat ==
    [ place |-> <<>>, draws |-> <<>>, emotions |-> <<>>, dominant_emotion |-> "",
      rating |-> 0 ]

\* No GET /heatmap request is running.
NoHeatmap ==
    [ pc |-> "off", pt |-> 0, all_places |-> <<>>, i |-> 0, heatmap_data |-> <<>>,
      status |-> 0, total_places |-> 0 ]

\* No music / activities request was made.
NoEndpoint ==
    [ endpoint |-> "none", mood |-> "", place_data |-> <<>>, status |-> 0, body |-> <<>> ]

\* The variables of the heatmap, music and activities handlers.
api_vars == <<hm, ep>>

\* A fresh search_places activation at position spc.
Frame(spc) ==
    [ spc |-> spc, kw |-> 0, all_places |-> <<>>, unique_places |-> <<>>,
      unique_count |-> 0, results |-> <<>>, ei |-> 0, enhanced_places |-> <<>>,
      retval |-> <<>> ]

\* The longest count the call log keeps.
CountCap == 4

\* The call log switched off: nothing is counted.
NoLog == [ on |-> FALSE, geocode |-> 0, found |-> 0, search |-> 0 ]

\* One more call of a kind in the log (when it is kept).
Counted(log, kind) ==
    IF log.on THEN [ log EXCEPT ![kind] = Min(@ + 1, CountCap) ] ELSE log

\* The handler is not running (the other specifications of this module).
HandlerOff ==
    /\ mood = ""
    /\ pc = "off"
    /\ status = 0
    /\ mood_correlations = <<>>
    /\ recommended_places = <<>>
    /\ di = 0
    /\ response = NoResponse
    /\ stack = <<>>
    /\ frame = Frame("idle")
    /\ calls = NoLog

handler_vars == <<mood, pc, status, mood_correlations, recommended_places, di,
                  response, stack, frame, calls>>

(***************************************************************************)
(* QlooService as a state machine: one action per public method.  The      *)
(* service keeps no state but its api key; call records the last call.     *)
(***************************************************************************)
\* Mood strings a caller may send: the declared moods and strings outside
\* the enum (the str-typed endpoints accept any string).
MoodStrings == MoodType \cup {"not-a-real-mood", "Anxious", ""}

PrimaryItemTypes ==
    { Text.Cafe, Text.Bar, Text.Restaurant, Text.Bakery, Text.NightClub, Text.Place,
      Text.CozyCafeAndBar, Text.BarAndRestaurant, Text.CafeRestaurant,
      Text.WineBarCafe, Text.Empty }

TargetDomainLists == { <<>>, <<"music">>, <<"activities">>, <<"music", "activities">> }

QlooInit ==
    /\ qloo_api_key \in BOOLEAN
    /\ places_api_key = FALSE
    /\ call = NoCall
    /\ heat = NoHeat
    /\ hm = NoHeatmap
    /\ ep = NoEndpoint
    /\ HandlerOff

\* user_preferences.dict() if user_preferences else {}: no preferences (the
\* empty dict), the model's defaults, and lists that repeat or add to the
\* tags of the mock profile.
UserPreferenceChoices ==
    << <<>>,
       [ favorite_cuisines |-> <<>>, music_preferences |-> <<>>,
         activity_preferences |-> <<>>, cultural_interests |-> <<>> ],
       [ favorite_cuisines |-> <<>>, music_preferences |-> <<"jazz_fusion", "k_pop">>,
         activity_preferences |-> <<>>, cultural_interests |-> <<>> ],
       [ favorite_cuisines |-> <<"ramen">>, music_preferences |-> <<"indie_folk">>,
         activity_preferences |-> <<"bouldering", "bouldering">>,
         cultural_interests |-> <<"street_art", "local_history">> ] >>

QGetTasteProfile ==
    \E k \in 1..Len(UserPreferenceChoices) :
        /\ call' = [ NoCall EXCEPT
                !.op = "get_taste_profile",
                !.prefs = UserPreferenceChoices[k],
                !.result = get_taste_profile(qloo_api_key, UserPreferenceChoices[k]) ]
    /\ UNCHANGED <<qloo_api_key, places_api_key, heat, handler_vars, api_vars>>

QGetMoodCorrelations ==
    \E m \in MoodStrings :
        /\ call' = [ NoCall EXCEPT !.op = "get_mood_correlations", !.mood = m,
                                   !.result = get_mood_correlations(qloo_api_key, m) ]
        /\ UNCHANGED <<qloo_api_key, places_api_key, heat, handler_vars, api_vars>>

QGetMusicRecommendations ==
    \E m \in MoodStrings :
        /\ call' = [ NoCall EXCEPT !.op = "get_music_recommendations", !.mood = m,
                                   !.result = MockMusicRecommendations(m) ]
        /\ UNCHANGED <<qloo_api_key, places_api_key, heat, handler_vars, api_vars>>

QGetActivityRecommendations ==
    \E m \in MoodStrings :
        /\ call' = [ NoCall EXCEPT !.op = "get_activity_recommendations", !.mood = m,
                                   !.result = MockActivityRecommendations(m) ]
        /\ UNCHANGED <<qloo_api_key, places_api_key, heat, handler_vars, api_vars>>

QGetCrossDomainRecommendations ==
    \E t \in PrimaryItemTypes, domains \in TargetDomainLists :
        /\ call' = [ NoCall EXCEPT !.op = "get_cross_domain_recommendations",
                                   !.item_type = t, !.domains = domains,
                                   !.result = MockCrossDomainRecommendations(t, domains) ]
        /\ UNCHANGED <<qloo_api_key, places_api_key, heat, handler_vars, api_vars>>

QlooNext ==
    \/ QGetTasteProfile
    \/ QGetMoodCorrelations
    \/ QGetMusicRecommendations
    \/ QGetActivityRecommendations
    \/ QGetCrossDomainRecommendations

SpecQloo == QlooInit /\ [][QlooNext]_vars

(***************************************************************************)
(* routers/recommendations.py get_recommendations, with the                *)
(* PlacesServices.search_places activations it runs.                       *)
(***************************************************************************)
\* Moods of the requests explored: one with an entry in every table and
\* one declared mood without.
RequestMoods == {"anxious", "relaxed"}

\* QlooService answers from the same tables with and without its key
\* (SpecQloo explores both), so the requests run without it.
Init ==
    /\ qloo_api_key = FALSE
    /\ places_api_key \in BOOLEAN
    /\ call = NoCall
    /\ heat = NoHeat
    /\ hm = NoHeatmap
    /\ ep = NoEndpoint
    /\ mood \in RequestMoods
    /\ pc = "start"
    /\ status = 0
    /\ mood_correlations = <<>>
    /\ recommended_places = <<>>
    /\ di = 0
    /\ response = NoResponse
    /\ stack = <<>>
    /\ frame = Frame("idle")
    /\ calls = NoLog

\* What a request never changes.
req_vars == <<qloo_api_key, places_api_key, call, heat, mood, hm, ep>>

env_vars == <<req_vars, calls>>

\* Steps 1-3 up to the call of places.search_places.
Begin ==
    /\ pc = "start"
    /\ mood_correlations' = get_mood_correlations(qloo_api_key, mood)
    /\ pc' = "search_places"
    /\ frame' = Frame("entry")
    /\ UNCHANGED <<env_vars, status, recommended_places, di, response, stack>>

\* _get_fallback_places called at line `site` of the running activation:
\* PlacesServices() is this same class with the same environment, so its
\* search_places is a nested activation; past the interpreter's limit the
\* call raises RecursionError instead, inside the try at line 40 and
\* outside it at lines 33 and 69.
CallFallback(site) ==
    IF Len(stack) + 1 < MaxDepth
    THEN /\ stack' = Append(stack, site)
         /\ frame' = Frame("entry")
    ELSE /\ stack' = stack
         /\ frame' = Frame(IF site = "L40" THEN "except" ELSE "raise")

InSearch(spc) == pc = "search_places" /\ frame.spc = spc

handler_locals == <<pc, status, mood_correlations, recommended_places, di, response>>

\* if not self.api_key: return await self._get_fallback_places(...)
SP_Entry ==
    /\ InSearch("entry")
    /\ IF ~places_api_key
       THEN CallFallback("L33")
       ELSE frame' = Frame("geocode") /\ stack' = stack
    /\ UNCHANGED <<env_vars, handler_locals>>

\* coords = await self._geocode_location(location); if not coords: ...
SP_Geocode ==
    /\ InSearch("geocode")
    /\ \E outcome \in {"coords", "none", "raise"} :
        CASE outcome = "coords" ->
                /\ frame' = [ Frame("search") EXCEPT !.kw = 1 ]
                /\ stack' = stack
                /\ calls' = Counted(Counted(calls, "geocode"), "found")
          [] outcome = "none" ->
                /\ CallFallback("L40")
                /\ calls' = Counted(calls, "geocode")
          [] OTHER ->
                /\ frame' = Frame("except")
                /\ stack' = stack
                /\ calls' = Counted(calls, "geocode")
    /\ UNCHANGED <<req_vars, handler_locals>>

\* mood_correlations.get("search_keywords", [...])[:3]
SearchKeywords == Take(mood_correlations.search_keywords, KeywordLimit)

\* One pass of  for keyword in search_keywords[:3]
SP_Search ==
    /\ InSearch("search")
    /\ frame.kw <= Len(SearchKeywords)
    /\ \/ \E ids \in SearchAnswers :
            frame' = [ frame EXCEPT
                !.all_places = frame.all_places \o
                    [ i \in 1..Len(ids) |-> Candidate(ids[i], frame.kw, i) ],
                !.kw = frame.kw + 1 ]
       \/ frame' = Frame("except")
    /\ calls' = Counted(calls, "search")
    /\ UNCHANGED <<req_vars, handler_locals, stack>>

\* Lines 51-54
SP_Dedup ==
    /\ InSearch("search")
    /\ frame.kw > Len(SearchKeywords)
    /\ IF DedupRaises(frame.all_places)
       THEN frame' = Frame("except")
       ELSE frame' = [ frame EXCEPT
                !.spc = "limit",
                !.unique_places = Deduplicate(frame.all_places) ]
    /\ UNCHANGED <<env_vars, handler_locals, stack>>

\* results = list(unique_places.values())[:6].  Of a result only its
\* place_id is read from here on, so results holds the place ids and
\* unique_count stands for the unique_places left behind.
SP_Limit ==
    /\ InSearch("limit")
    /\ frame' = [ Frame("enhance") EXCEPT
            !.unique_count = Len(frame.unique_places),
            !.results = Results(frame.unique_places),
            !.ei = 1 ]
    /\ UNCHANGED <<env_vars, handler_locals, stack>>

\* One pass of  for place in results  (line 60-63, _enhance_place_details)
SP_Enhance ==
    /\ InSearch("enhance")
    /\ frame.ei <= Len(frame.results)
    /\ LET place_id == frame.results[frame.ei]
       IN IF place_id \in {NoPlaceId, EmptyPlaceId}
          THEN frame' = [ frame EXCEPT !.ei = frame.ei + 1 ]
          ELSE \/ frame' = [ frame EXCEPT
                       !.enhanced_places = Append(frame.enhanced_places, EnhancedPlace(place_id)),
                       !.ei = frame.ei + 1 ]
               \/ frame' = [ frame EXCEPT !.ei = frame.ei + 1 ]
               \/ frame' = Frame("except")
    /\ UNCHANGED <<env_vars, handler_locals, stack>>

\* Line 65 preceded by  if not enhanced_places: return await
\* self._get_fallback_places(...)
SP_ReturnOrFallback ==
    /\ InSearch("enhance")
    /\ frame.ei > Len(frame.results)
    /\ IF frame.enhanced_places = <<>>
       THEN CallFallback("L65")
       ELSE /\ frame' = [ frame EXCEPT
                    !.spc = "return", !.unique_count = 0, !.results = <<>>,
                    !.retval = ReturnedPlaces(frame.enhanced_places) ]
            /\ stack' = stack
    /\ UNCHANGED <<env_vars, handler_locals>>

\* return enhanced_places[:4]
SP_Return ==
    /\ InSearch("enhance")
    /\ frame.ei > Len(frame.results)
    /\ frame' = [ frame EXCEPT
            !.spc = "return", !.unique_count = 0, !.results = <<>>,
            !.retval = ReturnedPlaces(frame.enhanced_places) ]
    /\ UNCHANGED <<env_vars, handler_locals, stack>>

\* except Exception: return await self._get_fallback_places(...)
SP_Except ==
    /\ InSearch("except")
    /\ CallFallback("L69")
    /\ UNCHANGED <<env_vars, handler_locals>>

\* An exception leaves the running activation: the suspended caller gets
\* it at its call site, get_recommendations in its  except Exception.
SP_Unwind ==
    /\ InSearch("raise")
    /\ IF stack = <<>>
       THEN /\ status' = 500
            /\ pc' = "done"
            /\ frame' = Frame("idle")
            /\ stack' = stack
       ELSE /\ frame' = Frame(IF stack[Len(stack)] = "L40" THEN "except" ELSE "raise")
            /\ stack' = SubSeq(stack, 1, Len(stack) - 1)
            /\ UNCHANGED <<pc, status>>
    /\ UNCHANGED <<env_vars, mood_correlations, recommended_places, di, response>>

\* A value leaves the running activation: every call site is
\* "return await", so the caller returns the same list.
SP_Deliver ==
    /\ InSearch("return")
    /\ IF stack = <<>>
       THEN /\ recommended_places' = frame.retval
            /\ pc' = "check"
            /\ frame' = Frame("idle")
            /\ stack' = stack
       ELSE /\ frame' = [ Frame("return") EXCEPT !.retval = frame.retval ]
            /\ stack' = SubSeq(stack, 1, Len(stack) - 1)
            /\ UNCHANGED <<pc, recommended_places>>
    /\ UNCHANGED <<env_vars, status, mood_correlations, di, response>>

\* Lines 45-61: the 404, else music and activities.
Check ==
    /\ pc = "check"
    /\ IF NoMatches(recommended_places)
       THEN /\ status' = 404
            /\ pc' = "done"
            /\ UNCHANGED <<di, response>>
       ELSE /\ response' = [ response EXCEPT
                    !.music = MockMusicRecommendations(mood),
                    !.activities = MockActivityRecommendations(mood) ]
            /\ di' = 1
            /\ pc' = "describe"
            /\ UNCHANGED status
    /\ UNCHANGED <<env_vars, mood_correlations, recommended_places, stack, frame>>

\* One pass of the loop of lines 64-69: the text or, when the generator
\* raises, the fallback text.
Describe ==
    /\ pc = "describe"
    /\ di <= Len(recommended_places)
    /\ \E outcome \in {"text", "raise"} :
        recommended_places' =
            [ recommended_places EXCEPT
                ![di] = WithDescription(recommended_places[di],
                                        generate_place_description(outcome)) ]
    /\ di' = di + 1
    /\ UNCHANGED <<env_vars, pc, status, mood_correlations, response, stack, frame>>

\* Lines 71-97: cross-domain picks for the first place, the insight, 200.
Finish ==
    /\ pc = "describe"
    /\ di > Len(recommended_places)
    /\ \E insight \in {"generated", "Sometimes the right place finds you when you need it most."} :
        response' = [ response EXCEPT
            !.cross_domain =
                IF recommended_places # <<>>
                THEN MockCrossDomainRecommendations(recommended_places[1].type,
                                                    <<"music", "activities">>)
                ELSE <<>>,
            !.mood_insights = insight ]
    /\ status' = 200
    /\ pc' = "done"
    /\ UNCHANGED <<env_vars, mood_correlations, recommended_places, di, stack, frame>>

Next ==
    \/ Begin
    \/ SP_Entry
    \/ SP_Geocode
    \/ SP_Search
    \/ SP_Dedup
    \/ SP_Limit
    \/ SP_Enhance
    \/ SP_Return
    \/ SP_Except
    \/ SP_Unwind
    \/ SP_Deliver
    \/ Check
    \/ Describe
    \/ Finish

Spec == Init /\ [][Next]_vars

\* The same request with the call log kept: every _geocode_location and
\* _search_nearby_places call of the request is counted.
CallsInit ==
    /\ qloo_api_key = FALSE
    /\ places_api_key \in BOOLEAN
    /\ call = NoCall
    /\ heat = NoHeat
    /\ hm = NoHeatmap
    /\ ep = NoEndpoint
    /\ mood = "anxious"
    /\ pc = "start"
    /\ status = 0
    /\ mood_correlations = <<>>
    /\ recommended_places = <<>>
    /\ di = 0
    /\ response = NoResponse
    /\ stack = <<>>
    /\ frame = Frame("idle")
    /\ calls = [ NoLog EXCEPT !.on = TRUE ]

SpecCalls == CallsInit /\ [][Next]_vars

(***************************************************************************)
(* PlacesServices.get_vibe_heatmap_data: the entry built for one place of  *)
(* the search results (lines 222-237).                                     *)
(***************************************************************************)
\* Raw search results the loop may meet: types and rating in tenths
\* (-1: the result has no rating).
HeatmapPlaceTypes ==
    { <<>>, <<"bar">>, <<"cafe", "food">>, <<"restaurant", "food">>, <<"park">>,
      <<"restaurant", "bar">>, <<"cafe", "night_club">>, <<"shopping_mall">> }

HeatmapRatings == { -1, 0, 10, 32, 45, 50 }

\* all_places holds one raw result; nothing is built yet.
HeatmapInit ==
    /\ qloo_api_key = FALSE
    /\ places_api_key = TRUE
    /\ call = NoCall
    /\ \E types \in HeatmapPlaceTypes, rating \in HeatmapRatings :
          heat = [ NoHeat EXCEPT !.place = [ types |-> types, rating |-> rating ] ]
    /\ hm = NoHeatmap
    /\ ep = NoEndpoint
    /\ HandlerOff

\* One pass of  for place in all_places[:50]
HeatmapEntry ==
    /\ places_api_key
    /\ heat.emotions = <<>>
    /\ \E draws \in [ 1..Len(HeatmapEmotions) -> UniformDraws ] :
        LET emotion_data == generate_emotion_data(heat.place, HeatmapEmotions, draws)
        IN heat' = [ heat EXCEPT
                     !.draws = draws,
                     !.emotions = emotion_data,
                     !.dominant_emotion = DominantEmotion(emotion_data),
                     !.rating = IF heat.place.rating = -1 THEN DefaultRating
                                ELSE heat.place.rating ]
    /\ UNCHANGED <<qloo_api_key, places_api_key, call, handler_vars, api_vars>>

HeatmapNext == HeatmapEntry

SpecHeatmap == HeatmapInit /\ [][HeatmapNext]_vars

(***************************************************************************)
(* routers/heatmap.py get_vibe_heatmap with                                *)
(* PlacesServices.get_vibe_heatmap_data.  A raw search result is its place *)
(* id; heatmap_data holds the place id of every entry and heat the entry   *)
(* appended last.                                                          *)
(***************************************************************************)
\* place_types of line 211
HeatmapSearchTypes == <<"restaurant", "cafe", "bar", "park", "shopping_mall">>

\* all_places[:50]
HeatmapLimit == 50

\* The longest answer of one nearby search.
MaxPage == 11

\* The id of a result that carries no "geometry".
NoGeometryId == 0

\* What one nearby search answers when all_places holds n results: nothing
\* (also every non-200 response), one new place, a full page of new
\* places, or a result without geometry.
HeatmapAnswers(n) ==
    { <<>>, <<n + 1>>, [ k \in 1..MaxPage |-> n + k ], <<NoGeometryId>> }

\* The raw result with this id: types and rating as the search returns them.
HeatmapPlace(place_id) == DetailsResult(place_id)

\* for place in all_places  without the slice
HeatmapBatchAll(all_places) == all_places

\* all_places[:50]
HeatmapBatch(all_places) == Take(all_places, HeatmapLimit)

\* In the handler every label of one entry gets the same random term;
\* SpecHeatmap explores independent terms.
EntryDraws == { [ i \in 1..Len(HeatmapEmotions) |-> d ] : d \in UniformDraws }

HeatmapApiInit ==
    /\ qloo_api_key = FALSE
    /\ places_api_key \in BOOLEAN
    /\ call = NoCall
    /\ heat = NoHeat
    /\ hm = [ NoHeatmap EXCEPT !.pc = "start" ]
    /\ ep = NoEndpoint
    /\ HandlerOff

hm_frame == <<qloo_api_key, places_api_key, call, ep, handler_vars>>

\* if not self.api_key: return []
HM_Start ==
    /\ hm.pc = "start"
    /\ hm' = [ hm EXCEPT !.pc = IF places_api_key THEN "geocode" ELSE "answer" ]
    /\ UNCHANGED <<hm_frame, heat>>

\* coords = await self._geocode_location(location); if not coords: return []
\* An exception is caught at line 241, which returns [] as well.
HM_Geocode ==
    /\ hm.pc = "geocode"
    /\ \E outcome \in {"coords", "none", "raise"} :
          hm' = IF outcome = "coords"
                THEN [ hm EXCEPT !.pc = "search", !.pt = 1 ]
                ELSE [ hm EXCEPT !.pc = "answer" ]
    /\ UNCHANGED <<hm_frame, heat>>

\* One pass of  for place_type in place_types
HM_Search ==
    /\ hm.pc = "search"
    /\ hm.pt <= Len(HeatmapSearchTypes)
    /\ \/ \E places \in HeatmapAnswers(Len(hm.all_places)) :
            hm' = [ hm EXCEPT !.all_places = hm.all_places \o places, !.pt = hm.pt + 1 ]
       \/ hm' = [ hm EXCEPT !.pc = "answer", !.all_places = <<>>, !.pt = 0 ]
    /\ UNCHANGED <<hm_frame, heat>>

\* heatmap_data = [] and the start of the loop over all_places[:50]
HM_Loop ==
    /\ hm.pc = "search"
    /\ hm.pt > Len(HeatmapSearchTypes)
    /\ hm' = [ hm EXCEPT !.pc = "build", !.pt = 0, !.i = 1 ]
    /\ UNCHANGED <<hm_frame, heat>>

\* One pass of  for place in all_places[:50]: the entry is appended, or
\* place["geometry"] raises KeyError and line 243 returns [].
HM_Build ==
    /\ hm.pc = "build"
    /\ hm.i <= Len(HeatmapBatch(hm.all_places))
    /\ LET place_id == HeatmapBatch(hm.all_places)[hm.i]
       IN IF place_id = NoGeometryId
          THEN /\ hm' = [ hm EXCEPT !.pc = "answer", !.all_places = <<>>, !.i = 0,
                                    !.heatmap_data = <<>> ]
               /\ heat' = NoHeat
          ELSE \E draws \in EntryDraws :
                LET place == HeatmapPlace(place_id)
                    emotion_data == generate_emotion_data(place, HeatmapEmotions, draws)
                IN /\ heat' = [ place |-> place,
                                draws |-> draws,
                                emotions |-> emotion_data,
                                dominant_emotion |-> DominantEmotion(emotion_data),
                                rating |-> IF place.rating = -1 THEN DefaultRating
                                           ELSE place.rating ]
                   /\ hm' = [ hm EXCEPT !.heatmap_data = Append(hm.heatmap_data, place_id),
                                        !.i = hm.i + 1 ]
    /\ UNCHANGED hm_frame

\* return heatmap_data
HM_Return ==
    /\ hm.pc = "build"
    /\ hm.i > Len(HeatmapBatch(hm.all_places))
    /\ hm' = [ hm EXCEPT !.pc = "answer", !.all_places = <<>>, !.i = 0 ]
    /\ UNCHANGED <<hm_frame, heat>>

\* get_vibe_heatmap, lines 20-31: the 404 or the 200 with total_places
HM_Answer ==
    /\ hm.pc = "answer"
    /\ hm' = IF hm.heatmap_data = <<>>
             THEN [ hm EXCEPT !.pc = "done", !.status = 404 ]
             ELSE [ hm EXCEPT !.pc = "done", !.status = 200,
                              !.total_places = Len(hm.heatmap_data) ]
    /\ UNCHANGED <<hm_frame, heat>>

HeatmapApiNext ==
    \/ HM_Start
    \/ HM_Geocode
    \/ HM_Search
    \/ HM_Loop
    \/ HM_Build
    \/ HM_Return
    \/ HM_Answer

SpecHeatmapApi == HeatmapApiInit /\ [][HeatmapApiNext]_vars

(***************************************************************************)
(* routers/recommendations.py get_music_for_place and                      *)
(* get_activities_for_mood, and the four public operations together.       *)
(***************************************************************************)
\* place_data bodies a caller may post: with and without "name" and "type"
PlaceDataChoices ==
    << [ name |-> "Blue Door", type |-> Text.Cafe ],
       [ name |-> "Night Owl", type |-> Text.BarAndRestaurant ],
       [ name |-> "Corner" ],
       [ type |-> Text.Bar ] >>

ep_frame == <<qloo_api_key, places_api_key, call, heat, hm, handler_vars>>

\* get_music_for_place: place_data["name"] raises KeyError for a body
\* without the key, answered by the 500 of lines 139-144.
GetMusicForPlace ==
    /\ ep = NoEndpoint
    /\ pc = "off"
    /\ hm.pc = "off"
    /\ \E k \in 1..Len(PlaceDataChoices), m \in MoodStrings :
          LET place_data == PlaceDataChoices[k]
              raw_type == IF "type" \in DOMAIN place_data THEN place_data.type ELSE Text.Empty
              cross_domain_recs == MockCrossDomainRecommendations(raw_type, <<"music">>)
          IN ep' = IF "name" \in DOMAIN place_data
                   THEN [ endpoint |-> "get_music_for_place", mood |-> m,
                          place_data |-> place_data, status |-> 200,
                          body |-> [ place_specific_music |->
                                         IF "music" \in DOMAIN cross_domain_recs
                                         THEN cross_domain_recs["music"] ELSE <<>>,
                                     mood_music |-> MockMusicRecommendations(m),
                                     place |-> place_data.name ] ]
                   ELSE [ endpoint |-> "get_music_for_place", mood |-> m,
                          place_data |-> place_data, status |-> 500, body |-> <<>> ]
    /\ UNCHANGED ep_frame

\* get_activities_for_mood
GetActivitiesForMood ==
    /\ ep = NoEndpoint
    /\ pc = "off"
    /\ hm.pc = "off"
    /\ \E m \in MoodStrings :
          LET activities == MockActivityRecommendations(m)
          IN ep' = [ endpoint |-> "get_activities_for_mood", mood |-> m,
                     place_data |-> <<>>, status |-> 200,
                     body |-> [ mood |-> m, activities |-> activities,
                                total_activities |-> Len(activities) ] ]
    /\ UNCHANGED ep_frame

\* One request to one of the four operations, with and without the keys.
ApiInit ==
    \/ Init
    \/ HeatmapApiInit
    \/ QlooInit

ApiNext ==
    \/ Next
    \/ HeatmapApiNext
    \/ GetMusicForPlace
    \/ GetActivitiesForMood

SpecApi == ApiInit /\ [][ApiNext]_vars

(***************************************************************************)
(* Properties                                                              *)
(***************************************************************************)

\* C1: with no GOOGLE_PLACES_API_KEY, a get_recommendations request for
\* mood "anxious" ends with a 200 answer that holds 3 to 4 places, each
\* rated 3.8 to 4.9, and never with the no-matches error.
C1_NoProviderReturnsPlaces ==
    (pc = "done" /\ ~places_api_key /\ mood = "anxious") =>
        /\ status = 200
        /\ Len(recommended_places) \in 3..4
        /\ \A i \in 1..Len(recommended_places) :
              recommended_places[i].rating \in 38..49

\* The index of the first result of all_places with place_id id.
FirstSeen(all_places, id) ==
    CHOOSE i \in 1..Len(all_places) :
        /\ all_places[i].place_id = id
        /\ \A k \in 1..(i - 1) : all_places[k].place_id # id

\* C2: after the merge no two places share an id, and every id found by
\* the searches is represented by exactly the result that was seen first
\* (earlier keyword, then earlier position), with that result's own fields.
C2_FirstSeenWins ==
    frame.spc = "limit" =>
        LET all_places == frame.all_places
            unique_places == frame.unique_places
        IN /\ \A i, j \in 1..Len(unique_places) :
                 i # j => unique_places[i].place_id # unique_places[j].place_id
           /\ \A i \in 1..Len(all_places) :
                 \E j \in 1..Len(unique_places) :
                    unique_places[j] = all_places[FirstSeen(all_places, all_places[i].place_id)]
           /\ \A j \in 1..Len(unique_places) :
                 \E i \in 1..Len(all_places) :
                    /\ unique_places[j] = all_places[i]
                    /\ i = FirstSeen(all_places, all_places[i].place_id)

\* C2 witness: two keyword passes returned the same place id and the merge
\* has run.
C2_Witness ==
    /\ frame.spc = "limit"
    /\ \E i, j \in 1..Len(frame.all_places) :
          /\ frame.all_places[i].place_id = frame.all_places[j].place_id
          /\ frame.all_places[i].kw < frame.all_places[j].kw

\* C3: a 200 answer never carries an empty places list, and a request
\* whose search returned an empty list ends with the 404.
C3_NeverEmptyOnSuccess ==
    /\ status = 200 => recommended_places # <<>>
    /\ pc = "describe" => recommended_places # <<>>
    /\ (pc = "done" /\ status # 500 /\ recommended_places = <<>>) => status = 404

\* C3 witness: the search returned an empty list and the 404 was raised.
C3_Witness ==
    pc = "done" /\ status = 404 /\ recommended_places = <<>>

\* C4: the only error status get_recommendations answers is the 404.
C4_OnlyNoMatchesSurfaces == status \in {0, 200, 404}

\* C5: the list a search_places activation returns, and so the list
\* get_recommendations receives, holds at most 4 places.
C5_AtMostFourPlaces ==
    /\ frame.spc = "return" => Len(frame.retval) <= 4
    /\ Len(recommended_places) <= 4

\* C5 witness: more than four places were enriched and four are returned.
C5_Witness ==
    /\ frame.spc = "return"
    /\ Len(frame.enhanced_places) > 4
    /\ Len(frame.retval) = 4

\* C6: a mood string outside MoodType is answered with the correlation
\* set of "contemplative", and "anxious" with its own set.
C6_UnknownMoodDefaults ==
    call.op = "get_mood_correlations" =>
        /\ call.mood \notin MoodType => call.result = mood_mappings["contemplative"]
        /\ call.mood = "anxious" => call.result = mood_mappings["anxious"]
        /\ call.mood = "anxious" => call.result # mood_mappings["contemplative"]

\* C6 witness: a string that is no declared mood was correlated.
C6_Witness ==
    /\ call.op = "get_mood_correlations"
    /\ call.mood = "not-a-real-mood"
    /\ call.result = mood_mappings["contemplative"]

\* C7: every declared mood is served by its own entry of mood_mappings,
\* never by the default entry.
C7_EveryMoodHasOwnEntry ==
    (call.op = "get_mood_correlations" /\ call.mood \in MoodType) =>
        /\ call.mood \in DOMAIN mood_mappings
        /\ MappingKey(call.mood) = call.mood

\* C8: for every declared mood the correlation set returned has non-empty
\* search_keywords and ambiance lists.
C8_KeywordsAndAmbianceNonEmpty ==
    (call.op = "get_mood_correlations" /\ call.mood \in MoodType) =>
        /\ call.result.search_keywords # <<>>
        /\ call.result.ambiance # <<>>

\* C8 witness: a declared mood with no entry of its own was correlated.
C8_Witness ==
    /\ call.op = "get_mood_correlations"
    /\ call.mood = "relaxed"
    /\ call.mood \notin DOMAIN mood_mappings
    /\ Len(call.result.search_keywords) > 0

\* The first of cafe, bar, restaurant contained in a lower-cased type.
FirstCategory(place_type) ==
    IF Contains(Chars["cafe"], place_type) THEN "cafe"
    ELSE IF Contains(Chars["bar"], place_type) THEN "bar"
    ELSE IF Contains(Chars["restaurant"], place_type) THEN "restaurant"
    ELSE "none"

\* The curated row of a category for a domain (<<>>: the table has none).
CuratedRow(category, domain) ==
    CASE category = "cafe" /\ domain = "music" -> <<CafeMusic>>
      [] category = "bar" /\ domain = "music" -> <<BarMusic>>
      [] category = "restaurant" /\ domain = "activities" -> <<RestaurantActivities>>
      [] OTHER -> <<>>

\* What a cross-domain answer holds for a domain (<<>>: no such key).
Answered(result, domain) ==
    IF domain \in DOMAIN result THEN <<result[domain]>> ELSE <<>>

\* C9 as stated: one category, the first of cafe, bar, restaurant that the
\* lower-cased type contains, decides the row of every requested domain.
C9_OneCategoryForAllDomains ==
    call.op = "get_cross_domain_recommendations" =>
        \A d \in {"music", "activities"} :
            InList(d, call.domains) =>
                Answered(call.result, d) =
                    CuratedRow(FirstCategory(Lower(call.item_type)), d)

\* C9 amended: each requested domain is classified on its own, music by
\* cafe before bar, activities by restaurant alone; a domain that was not
\* requested gets no key; "cozy cafe and bar" for music is the cafe row.
C9_PriorityPerDomain ==
    call.op = "get_cross_domain_recommendations" =>
        LET place_type == Lower(call.item_type)
            cafe == Contains(Chars["cafe"], place_type)
            bar == Contains(Chars["bar"], place_type)
            restaurant == Contains(Chars["restaurant"], place_type)
            music == Answered(call.result, "music")
            acts == Answered(call.result, "activities")
        IN /\ InList("music", call.domains) =>
                /\ cafe => music = <<CafeMusic>>
                /\ (~cafe /\ bar) => music = <<BarMusic>>
                /\ (~cafe /\ ~bar) => music = <<>>
           /\ InList("activities", call.domains) =>
                /\ restaurant => acts = <<RestaurantActivities>>
                /\ ~restaurant => acts = <<>>
           /\ ~InList("music", call.domains) => music = <<>>
           /\ ~InList("activities", call.domains) => acts = <<>>
           /\ (call.item_type = Text.CozyCafeAndBar /\ call.domains = <<"music">>) =>
                call.result = [ d \in {"music"} |-> CafeMusic ]

\* C9 witness: a type holding both "bar" and "restaurant", asked for both
\* domains, got the bar music row and the restaurant activities row.
C9_Witness ==
    /\ call.op = "get_cross_domain_recommendations"
    /\ call.item_type = Text.BarAndRestaurant
    /\ call.domains = <<"music", "activities">>
    /\ call.result["music"] = BarMusic
    /\ call.result["activities"] = RestaurantActivities

\* The emotion labels the claim names.
EightEmotions ==
    {"happy", "relaxed", "energetic", "nostalgic", "contemplative", "romantic",
     "anxious", "lonely"}

\* C10 as stated: the vector built for a place rated 0 to 5 holds each of
\* the eight labels with a value from 0 to 1.
C10_EightLabelsInUnitRange ==
    (heat.emotions # <<>> /\ heat.rating \in 0..50) =>
        \A label \in EightEmotions :
            \E i \in 1..Len(heat.emotions) :
                /\ heat.emotions[i].emotion = label
                /\ heat.emotions[i].value \in 0..10000

\* C10 amended: the vector holds each of the six labels the heatmap passes
\* (happy, relaxed, energetic, nostalgic, contemplative, romantic), once,
\* with a value from 0 to 1.
C10_SixLabelsInUnitRange ==
    (heat.emotions # <<>> /\ heat.rating \in 0..50) =>
        /\ Len(heat.emotions) = 6
        /\ \A label \in {"happy", "relaxed", "energetic", "nostalgic",
                         "contemplative", "romantic"} :
              \E i \in 1..Len(heat.emotions) : heat.emotions[i].emotion = label
        /\ \A i \in 1..Len(heat.emotions) : heat.emotions[i].value \in 0..10000

\* C10 witness: a place rated 5.0 whose boosted intensity was cut to 1.0
\* while another label stayed below it.
C10_Witness ==
    /\ heat.emotions # <<>>
    /\ heat.place.rating = 50
    /\ InList("bar", heat.place.types)
    /\ \E i, j \in 1..Len(heat.emotions) :
          /\ heat.emotions[i].value = 10000
          /\ heat.emotions[j].value < 10000

\* C11: every call of _get_fallback_places returns, and the list it
\* returns holds 3 to 5 places with pairwise distinct ids.  The value a
\* nested search_places activation returns is the value of the
\* _get_fallback_places call that started it; a call that raises instead
\* shows as an exception leaving an activation.
C11_FallbackReturnsThreeToFive ==
    /\ (InSearch("return") /\ stack # <<>>) =>
          /\ Len(frame.retval) \in 3..5
          /\ \A i, j \in 1..Len(frame.retval) :
                i # j => frame.retval[i].id # frame.retval[j].id
    /\ ~InSearch("raise")

\* list with later duplicates removed, first occurrences in order
RECURSIVE KeepFirst(_, _)
KeepFirst(list, kept) ==
    IF list = <<>> THEN kept
    ELSE IF InList(Head(list), kept) THEN KeepFirst(Tail(list), kept)
    ELSE KeepFirst(Tail(list), Append(kept, Head(list)))

\* The user-supplied list of a dimension (empty when none was sent).
UserList(user_preferences, dimension) ==
    IF dimension \in DOMAIN user_preferences THEN user_preferences[dimension] ELSE <<>>

\* C12: the profile get_taste_profile returns holds, for each dimension,
\* the baseline list followed by the user's list of that dimension with
\* duplicates removed (first occurrence kept); with no user preferences it
\* is the baseline.
C12_ProfileMergesUserPreferences ==
    call.op = "get_taste_profile" =>
        /\ DOMAIN call.result = DOMAIN MockTasteProfile
        /\ \A dimension \in DOMAIN MockTasteProfile :
              call.result[dimension] =
                  KeepFirst(MockTasteProfile[dimension] \o UserList(call.prefs, dimension), <<>>)

\* C14: the answer of GET /heatmap never holds more than 50 entries, at
\* any point of the loop and in the 200 answer.
C14_AtMostFiftyEntries ==
    /\ Len(hm.heatmap_data) <= 50
    /\ hm.status = 200 => hm.total_places \in 1..50

\* C14 witness: the five searches returned more than 50 places and the
\* request was answered with exactly 50.
C14_Witness ==
    /\ hm.status = 200
    /\ hm.total_places = 50
    /\ hm.heatmap_data[50] = 50

\* C13: with the key of the live collaborator absent, none of the four
\* public operations answers with an error: get_recommendations and the
\* heatmap (places key), get_music_for_place and get_activities_for_mood
\* (Qloo key; a well-formed body) each answer 200 with data.
C13_MissingKeyNeverSurfaces ==
    /\ (~places_api_key /\ pc = "done") =>
          status = 200 /\ recommended_places # <<>>
    /\ (~places_api_key /\ hm.pc = "done") =>
          hm.status = 200 /\ hm.total_places > 0
    /\ (~qloo_api_key /\ ep.endpoint = "get_music_for_place"
            /\ "name" \in DOMAIN ep.place_data) =>
          ep.status = 200
    /\ (~qloo_api_key /\ ep.endpoint = "get_activities_for_mood") =>
          ep.status = 200

\* C15: while no geocoding attempt of the request has succeeded, the
\* geocoder is called at most twice (one retry), and the request then ends
\* with a 200 answer that holds places.
C15_OneRetryThenFallback ==
    /\ calls.found = 0 => calls.geocode <= 2
    /\ (pc = "done" /\ calls.geocode > 0 /\ calls.found = 0) =>
          status = 200 /\ recommended_places # <<>>

\* C18: within one request the nearby search is called at most three
\* times, and only for keyword indexes 1 to 3.
C18_AtMostThreeSearches ==
    /\ calls.search <= 3
    /\ InSearch("search") => frame.kw \in 1..4
    /\ \A i \in 1..Len(frame.all_places) : frame.all_places[i].kw \in 1..3

\* The live path of the running activation has completed (every result
\* was tried) with no enriched place.
LiveResultEmpty ==
    /\ InSearch("enhance")
    /\ frame.ei > Len(frame.results)
    /\ frame.enhanced_places = <<>>

Ids(places) == [ i \in 1..Len(places) |-> places[i].id ]

\* sub is list with some elements left out, the rest in their order.
RECURSIVE IsSubsequence(_, _)
IsSubsequence(sub, list) ==
    IF sub = <<>> THEN TRUE
    ELSE IF list = <<>> THEN FALSE
    ELSE IF Head(sub) = Head(list) THEN IsSubsequence(Tail(sub), Tail(list))
    ELSE IsSubsequence(sub, Tail(list))

\* C19: the candidates handed to enrichment are the first six entries of
\* the deduplicated set in its insertion order; at every point of the
\* enrichment loop the enriched places are, in order, places among the
\* candidates tried so far; the list returned is a subsequence of the six
\* candidates.
C19_OrderPreservingSubsequence ==
    /\ [](InSearch("enhance") =>
            /\ Len(frame.results) <= 6
            /\ frame.ei \in 1..(Len(frame.results) + 1)
            /\ IsSubsequence(Ids(frame.enhanced_places),
                              SubSeq(frame.results, 1, frame.ei - 1)))
    /\ [][ /\ InSearch("limit") =>
                /\ frame'.spc = "enhance"
                /\ Len(frame'.results) = Min(6, Len(frame.unique_places))
                /\ \A i \in 1..Len(frame'.results) :
                       frame'.results[i] = frame.unique_places[i].place_id
           /\ InSearch("enhance") =>
                frame'.spc # "enhance" \/ frame'.results = frame.results
           /\ (InSearch("enhance") /\ frame'.spc = "return") =>
                /\ IsSubsequence(Ids(frame'.retval), frame.results)
                /\ \A i \in 1..Len(frame'.retval) :
                       frame'.retval[i] = frame.enhanced_places[i] ]_vars

\* C19 witness: the deduplicated set held more than six candidates, the
\* seventh was not tried, two of the six were dropped and the places
\* enriched stand in candidate order.
C19_Witness ==
    /\ InSearch("enhance")
    /\ frame.unique_count > 6
    /\ frame.results = <<5, 1, 2, 3, 4, 6>>
    /\ frame.ei = 7
    /\ Ids(frame.enhanced_places) = <<5, 2, 3, 6>>

\* C17: whatever the outcome of one enrichment (a place, a non-200
\* response, an error raised by the details call), the loop goes on with
\* the next candidate and the places enriched so far are kept.
C17_EnrichmentFailureDropsOneCandidate ==
    [][ (InSearch("enhance") /\ frame.ei <= Len(frame.results)) =>
            /\ frame'.spc = "enhance"
            /\ frame'.ei = frame.ei + 1
            /\ Len(frame'.enhanced_places) >= Len(frame.enhanced_places)
            /\ SubSeq(frame'.enhanced_places, 1, Len(frame.enhanced_places))
                   = frame.enhanced_places ]_vars

\* place carries a description: the generator's text or the fallback text.
Described(place) ==
    /\ "emotional_description" \in DOMAIN place
    /\ place["emotional_description"] \in {"generated", FallbackDescription}

\* C20: each pass of the description loop, whether the generator answers
\* or fails, gives the place a description (the generator's text or the
\* fixed fallback text), leaves the other places alone and stays in the
\* loop with no error answered; a 200 answer carries a described place at
\* every position.
C20_DescriptionFailureNeverAborts ==
    /\ [](pc = "describe" =>
            /\ status = 0
            /\ \A i \in 1..(di - 1) : Described(recommended_places[i]))
    /\ [](status = 200 =>
            \A i \in 1..Len(recommended_places) : Described(recommended_places[i]))
    /\ [][ (pc = "describe" /\ di <= Len(recommended_places)) =>
                /\ pc' = "describe"
                /\ status' = 0
                /\ di' = di + 1
                /\ Len(recommended_places') = Len(recommended_places)
                /\ Described(recommended_places'[di])
                /\ \A i \in 1..Len(recommended_places) :
                       i # di => recommended_places'[i] = recommended_places[i] ]_vars

\* C20 witness: a 200 answer in which the generator failed for one place
\* and answered for another.
C20_Witness ==
    /\ status = 200
    /\ \E i, j \in 1..Len(recommended_places) :
          /\ recommended_places[i]["emotional_description"] = FallbackDescription
          /\ recommended_places[j]["emotional_description"] = "generated"

\* The multiplier, in tenths, that one category rule gives a label.
RuleTenths(category, label) ==
    CASE category = "bar" ->
            IF label \in {"energetic", "happy"} THEN 13
            ELSE IF label \in {"contemplative", "relaxed"} THEN 7 ELSE 10
      [] category = "cafe" ->
            IF label \in {"contemplative", "relaxed"} THEN 12
            ELSE IF label = "energetic" THEN 8 ELSE 10
      [] category = "restaurant" ->
            IF label \in {"happy", "romantic"} THEN 12 ELSE 10
      [] category = "park" ->
            IF label \in {"relaxed", "contemplative"} THEN 13 ELSE 10
      [] OTHER -> 10

\* The rules, in their fixed order, that the types of a place match.
MatchingRules(types) ==
    (IF InList("bar", types) \/ InList("night_club", types) THEN <<"bar">> ELSE <<>>)
    \o (IF InList("cafe", types) THEN <<"cafe">> ELSE <<>>)
    \o (IF InList("restaurant", types) THEN <<"restaurant">> ELSE <<>>)
    \o (IF InList("park", types) THEN <<"park">> ELSE <<>>)

\* value after the multipliers of a list of rules, one after the other
RECURSIVE ApplyRules(_, _, _)
ApplyRules(rules, label, value) ==
    IF rules = <<>> THEN value
    ELSE ApplyRules(Tail(rules), label, (value * RuleTenths(Head(rules), label)) \div 10)

\* The base intensity of the i-th label of the entry built last.
EntryBase(i) == heat.rating * 140 + heat.draws[i]

\* C21 as stated: every label of a built entry holds its base intensity
\* multiplied by every matching rule in the order bar/night_club, cafe,
\* restaurant, park, then capped at 1.0.
C21_MultipliersCumulative ==
    heat.emotions # <<>> =>
        \A i \in 1..Len(heat.emotions) :
            heat.emotions[i].value =
                Min(10000, ApplyRules(MatchingRules(heat.place.types),
                                      heat.emotions[i].emotion, EntryBase(i)))

\* C21 amended: every label of a built entry holds its base intensity
\* multiplied by the first matching rule only (order bar/night_club, cafe,
\* restaurant, park), then capped at 1.0; later matching rules are not
\* applied.
C21_FirstMatchingRuleOnly ==
    heat.emotions # <<>> =>
        \A i \in 1..Len(heat.emotions) :
            heat.emotions[i].value =
                Min(10000, ApplyRules(Take(MatchingRules(heat.place.types), 1),
                                      heat.emotions[i].emotion, EntryBase(i)))

\* C21 witness: a place that is both restaurant and bar, rated 1.0: happy
\* got the bar multiplier 1.3 alone and romantic was left at its base.
C21_Witness ==
    /\ heat.emotions # <<>>
    /\ heat.place.types = <<"restaurant", "bar">>
    /\ heat.place.rating = 10
    /\ heat.emotions[1].value = (EntryBase(1) * 13) \div 10
    /\ heat.emotions[6].value = EntryBase(6)

\* The declaration order of the labels the claim names.
DeclarationOrder ==
    <<"happy", "relaxed", "energetic", "nostalgic", "contemplative", "romantic",
      "anxious", "lonely">>

Position(label) == CHOOSE k \in 1..Len(DeclarationOrder) : DeclarationOrder[k] = label

\* C22: the dominant emotion of a built entry is one label of its vector,
\* its value is the greatest of the vector, and every other label with
\* that value stands later in the declaration order.
C22_DominantIsFirstMaximum ==
    heat.emotions # <<>> =>
        \E i \in 1..Len(heat.emotions) :
            /\ heat.emotions[i].emotion = heat.dominant_emotion
            /\ \A j \in 1..Len(heat.emotions) :
                  /\ heat.emotions[j].value <= heat.emotions[i].value
                  /\ (j # i /\ heat.emotions[j].value = heat.emotions[i].value) =>
                        Position(heat.emotions[i].emotion) < Position(heat.emotions[j].emotion)

\* C22 witness: relaxed and contemplative share the greatest value, happy
\* lies below it, and relaxed is reported.
C22_Witness ==
    /\ heat.emotions # <<>>
    /\ heat.dominant_emotion = "relaxed"
    /\ heat.emotions[2].value = heat.emotions[5].value
    /\ heat.emotions[1].value < heat.emotions[2].value

\* C23: a search result without a place id (the key absent, or its value
\* empty) never ends the live path: the merge step goes on to the
\* truncation with every identified place of all_places in the unique
\* set, and the enrichment loop skips such a result and keeps the places
\* enriched so far.
C23_IdlessResultAffectsOnlyItself ==
    [][ /\ (InSearch("search") /\ frame.kw > Len(SearchKeywords)) =>
            /\ frame'.spc = "limit"
            /\ \A i \in 1..Len(frame.all_places) :
                  frame.all_places[i].place_id \notin {NoPlaceId, EmptyPlaceId} =>
                      \E j \in 1..Len(frame'.unique_places) :
                          frame'.unique_places[j].place_id = frame.all_places[i].place_id
        /\ (InSearch("enhance") /\ frame.ei <= Len(frame.results)
                /\ frame.results[frame.ei] \in {NoPlaceId, EmptyPlaceId}) =>
            /\ frame'.spc = "enhance"
            /\ frame'.ei = frame.ei + 1
            /\ frame'.enhanced_places = frame.enhanced_places ]_vars

====
